---- MODULE Spec2Model ----
(***************************************************************************)
(* A model of the person service of src/main.py: the three tables (person, *)
(* education, skill), the POST /persons/ handler create_person and the     *)
(* GET /persons/{person_id} handler read_person.  Requests run in a thread *)
(* pool, each with its own session, and interleave at the granularity of   *)
(* their storage statements.                                               *)
(***************************************************************************)
EXTENDS Integers, Sequences, FiniteSets, TLC

\* ------------------------------------------------------------- bounds
\* Number of create-person requests and of read-person requests of a run,
\* and the number of education and skill entries a request with children
\* carries.
NumCreators == 2
NumReaders == 2
MaxChildren == 2

Creators == 1..NumCreators
Readers == 1..NumReaders

\* ---------------------------------------------------- request payloads
\* A string is a sequence of characters, so that validation and
\* normalisation of an email are computed on its text.
RawEmails ==
    { <<"a", "@", "x">>, <<"a", "@", "X">>, <<"b", "@", "x">>, <<"a", "x">> }

\* The c-th request of a run carries the c-th name and phone number.
Names == <<"Ann", "Bob", "Cat">>
NameOf(c) == Names[((c - 1) % Len(Names)) + 1]
Phones == <<"555-0001", "555-0002", "555-0003">>
PhoneOf(c) == Phones[((c - 1) % Len(Phones)) + 1]

\* The i-th education entry and skill entry a client submits; entries of one
\* list are distinct.  cgpa is a float; the model counts it in tenths.
EducationEntry(i) ==
    [ degree |-> IF i % 2 = 1 THEN "BSc" ELSE "MSc", cgpa |-> 40 - i,
      institute |-> "Example University" ]

SkillEntry(i) ==
    [ skill_name |-> IF i % 2 = 1 THEN "Python" ELSE "SQL", proficiency |-> i ]

\* The lengths of the education list and the skill list of a body: no
\* children at all, or MaxChildren entries split between the two lists.
Shapes == { <<0, 0>> } \cup { <<k, MaxChildren - k>> : k \in 0..MaxChildren }

\* The JSON bodies the c-th client may post to /persons/.
Bodies(c) ==
    { [ name |-> NameOf(c), email |-> e, phone_number |-> PhoneOf(c),
        educations |-> [i \in 1..sh[1] |-> EducationEntry(i)],
        skills |-> [i \in 1..sh[2] |-> SkillEntry(i)] ] :
      e \in RawEmails, sh \in Shapes }

\* The ids a client asks for: every id a run can assign, and one more.
PersonIds == 1..(NumCreators + 1)

\* ------------------------------------------------------------ EmailStr
AtPositions(s) == { i \in 1..Len(s) : s[i] = "@" }

\* A validator that accepts every text that is not empty.
ValidEmailAnyText(s) == Len(s) > 0

\* EmailStr accepts a text with one "@" that has a local part before it and
\* a domain after it.
ValidEmail(s) ==
    /\ Cardinality(AtPositions(s)) = 1
    /\ \A i \in AtPositions(s) : 1 < i /\ i < Len(s)

Lower(ch) == IF ch = "X" THEN "x" ELSE ch

\* The value EmailStr hands to the handler is the address as the validator
\* normalises it: the domain part in lower case, the local part as
\* submitted.
NormalizeEmail(s) ==
    [ i \in 1..Len(s) |->
        IF \E a \in AtPositions(s) : a < i THEN Lower(s[i]) ELSE s[i] ]

\* PersonCreate: the parsed request.
PersonCreate(body) ==
    [ name |-> body.name,
      email |-> NormalizeEmail(body.email),
      phone_number |-> body.phone_number,
      educations |-> body.educations,
      skills |-> body.skills ]

\* ------------------------------------------------------------- storage
NoRow == [id |-> 0]

Max(S) == CHOOSE x \in S : \A y \in S : y <= x
Min(S) == CHOOSE x \in S : \A y \in S : x <= y

\* An INTEGER PRIMARY KEY column: one more than the largest id of the table.
NextId(table) == IF table = {} THEN 1 ELSE Max({ r.id : r \in table }) + 1

\* The rows of a table as .first() and a relationship load see them: in
\* id order.
RECURSIVE InIdOrder(_)
InIdOrder(rows) ==
    IF rows = {} THEN <<>>
    ELSE LET r == CHOOSE x \in rows : x.id = Min({ y.id : y \in rows })
         IN  <<r>> \o InIdOrder(rows \ {r})

First(rows) == IF rows = {} THEN NoRow ELSE Head(InIdOrder(rows))

\* The existence query with its comparison inverted.
QueryByEmailInverted(table, email) == First({ p \in table : p.email # email })

\* db.query(PersonDB).filter(PersonDB.email == email).first()
QueryByEmail(table, email) == First({ p \in table : p.email = email })

\* The query by id without its filter.
QueryByIdUnfiltered(table, person_id) == First(table)

\* db.query(PersonDB).filter(PersonDB.id == person_id).first()
QueryById(table, person_id) == First({ p \in table : p.id = person_id })

\* The email column without its unique index.
UniqueViolationNever(table, email) == FALSE

\* email = Column(String, unique=True): an INSERT of a held email fails.
UniqueViolation(table, email) == \E p \in table : p.email = email

PersonDB(id, person) ==
    [ id |-> id, name |-> person.name, email |-> person.email,
      phone_number |-> person.phone_number ]

\* An Education row that takes its own id for its owner's.
EducationDBOwnId(id, edu, person_id) ==
    [ id |-> id, degree |-> edu.degree, cgpa |-> edu.cgpa,
      institute |-> edu.institute, person_id |-> id ]

EducationDB(id, edu, person_id) ==
    [ id |-> id, degree |-> edu.degree, cgpa |-> edu.cgpa,
      institute |-> edu.institute, person_id |-> person_id ]

SkillDB(id, skill, person_id) ==
    [ id |-> id, skill_name |-> skill.skill_name,
      proficiency |-> skill.proficiency, person_id |-> person_id ]

\* The education rows inserted last entry first.
NewEducationsReversed(table, edus, person_id) ==
    { EducationDB(NextId(table) + Len(edus) - i, edus[i], person_id) :
        i \in 1..Len(edus) }

\* The skill rows without the last entry of the list.
NewSkillsButLast(table, sks, person_id) ==
    { SkillDB(NextId(table) + i - 1, sks[i], person_id) :
        i \in 1..(Len(sks) - 1) }

\* The rows one flush inserts for a request's education list and skill
\* list: one row per entry, ids in the order of the db.add calls.
NewEducations(table, edus, person_id) ==
    { EducationDB(NextId(table) + i - 1, edus[i], person_id) :
        i \in 1..Len(edus) }

NewSkills(table, sks, person_id) ==
    { SkillDB(NextId(table) + i - 1, sks[i], person_id) : i \in 1..Len(sks) }

\* ----------------------------------------------------- response models
Education(row) ==
    [ degree |-> row.degree, cgpa |-> row.cgpa, institute |-> row.institute ]

Skill(row) == [ skill_name |-> row.skill_name, proficiency |-> row.proficiency ]

\* Relationship loads that do not filter on the owner.
LoadEducationsUnfiltered(table, person_id) ==
    LET rows == InIdOrder(table)
    IN  [ i \in 1..Len(rows) |-> Education(rows[i]) ]

LoadSkillsUnfiltered(table, person_id) ==
    LET rows == InIdOrder(table)
    IN  [ i \in 1..Len(rows) |-> Skill(rows[i]) ]

\* person.educations and person.skills: the relationship loads.
LoadEducations(table, person_id) ==
    LET rows == InIdOrder({ e \in table : e.person_id = person_id })
    IN  [ i \in 1..Len(rows) |-> Education(rows[i]) ]

LoadSkills(table, person_id) ==
    LET rows == InIdOrder({ k \in table : k.person_id = person_id })
    IN  [ i \in 1..Len(rows) |-> Skill(rows[i]) ]

PersonResponse(row, edus, sks) ==
    [ id |-> row.id, name |-> row.name, email |-> row.email,
      phone_number |-> row.phone_number, educations |-> edus, skills |-> sks ]

NoResponse == [status |-> 0]
Ok(body) == [status |-> 200, body |-> body]
Conflict == [status |-> 400, detail |-> "Email already registered"]
NotFound == [status |-> 404, detail |-> "Person not found"]
Validation == [status |-> 422, detail |-> "value is not a valid email address"]
\* An exception the handler does not catch is answered 500; detail names it.
ServerError(exc) == [status |-> 500, detail |-> exc]

\* --------------------------------------------------------------- state
VARIABLES
    persons, educations, skills,    \* the three tables
    cpc,         \* create request -> its position in create_person
    request,     \* create request -> the body posted
    person,      \* create request -> the parsed PersonCreate
    db_person,   \* create request -> what the existence query returned
    new_person,  \* create request -> the row it committed
    cresponse,   \* create request -> its response
    rpc,         \* read request -> its position in read_person
    person_id,   \* read request -> the id asked for
    rperson,     \* read request -> the row its query returned
    reducations, \* read request -> the education list it loaded
    rresponse    \* read request -> its response

storage == <<persons, educations, skills>>
cvars == <<cpc, request, person, db_person, new_person, cresponse>>
rvars == <<rpc, person_id, rperson, reducations, rresponse>>
vars == <<persons, educations, skills, cpc, request, person, db_person,
          new_person, cresponse, rpc, person_id, rperson, reducations,
          rresponse>>

Unset == [id |-> -1]
NoBody == [name |-> ""]

Init ==
    /\ persons = {}
    /\ educations = {}
    /\ skills = {}
    /\ cpc = [c \in Creators |-> "idle"]
    /\ request = [c \in Creators |-> NoBody]
    /\ person = [c \in Creators |-> NoBody]
    /\ db_person = [c \in Creators |-> Unset]
    /\ new_person = [c \in Creators |-> NoRow]
    /\ cresponse = [c \in Creators |-> NoResponse]
    /\ rpc = [q \in Readers |-> "idle"]
    /\ person_id = [q \in Readers |-> 0]
    /\ rperson = [q \in Readers |-> NoRow]
    /\ reducations = [q \in Readers |-> <<>>]
    /\ rresponse = [q \in Readers |-> NoResponse]

\* ------------------------------------------------------- create_person
\* A request takes one step per storage statement of the handler: the
\* existence query, the commit of the Person, the commit of its children.
\* Requests are numbered in their order of arrival.

\* The body does not parse into PersonCreate: the request is answered 422
\* and create_person is not called.
Reject(c) ==
    /\ cpc[c] = "idle"
    /\ \A b \in Creators : b < c => cpc[b] # "idle"
    /\ \E body \in Bodies(c) :
        /\ ~ValidEmail(body.email)
        /\ request' = [request EXCEPT ![c] = body]
    /\ cpc' = [cpc EXCEPT ![c] = "done"]
    /\ cresponse' = [cresponse EXCEPT ![c] = Validation]
    /\ UNCHANGED <<storage, person, db_person, new_person, rvars>>

\* Lines 109-113: the body parses, the handler runs its existence query and
\* raises the 400 if it finds a row.
CheckEmail(c) ==
    /\ cpc[c] = "idle"
    /\ \A b \in Creators : b < c => cpc[b] # "idle"
    /\ \E body \in Bodies(c) :
        /\ ValidEmail(body.email)
        /\ request' = [request EXCEPT ![c] = body]
        /\ person' = [person EXCEPT ![c] = PersonCreate(body)]
    /\ LET found == QueryByEmail(persons, person'[c].email)
       IN  /\ db_person' = [db_person EXCEPT ![c] = found]
           /\ IF found # NoRow
              THEN /\ cpc' = [cpc EXCEPT ![c] = "done"]
                   /\ cresponse' = [cresponse EXCEPT ![c] = Conflict]
              ELSE /\ cpc' = [cpc EXCEPT ![c] = "insert"]
                   /\ UNCHANGED cresponse
    /\ UNCHANGED <<storage, new_person, rvars>>

\* Lines 116-123: the Person is inserted and committed, and refreshed with
\* its id.  The unique index on email rejects a held email; the
\* IntegrityError is not caught and the request is answered 500.
CommitPerson(c) ==
    /\ cpc[c] = "insert"
    /\ IF UniqueViolation(persons, person[c].email)
       THEN /\ cpc' = [cpc EXCEPT ![c] = "done"]
            /\ cresponse' = [cresponse EXCEPT ![c] =
                   ServerError("IntegrityError")]
            /\ UNCHANGED <<persons, new_person>>
       ELSE LET row == PersonDB(NextId(persons), person[c])
            IN  /\ persons' = persons \cup {row}
                /\ new_person' = [new_person EXCEPT ![c] = row]
                /\ cpc' = [cpc EXCEPT ![c] = "children"]
                /\ UNCHANGED cresponse
    /\ UNCHANGED <<educations, skills, request, person, db_person, rvars>>

\* Lines 126-148: the education and skill rows are added to the session and
\* committed by one db.commit(); the row is refreshed and returned, and the
\* response model loads its educations and skills.
CommitChildren(c) ==
    /\ cpc[c] = "children"
    /\ educations' = educations \cup
           NewEducations(educations, person[c].educations, new_person[c].id)
    /\ skills' = skills \cup
           NewSkills(skills, person[c].skills, new_person[c].id)
    /\ LET row == QueryById(persons, new_person[c].id)
       IN  cresponse' = [cresponse EXCEPT ![c] =
               Ok(PersonResponse(row, LoadEducations(educations', row.id),
                                 LoadSkills(skills', row.id)))]
    /\ cpc' = [cpc EXCEPT ![c] = "done"]
    /\ UNCHANGED <<persons, request, person, db_person, new_person, rvars>>

\* The request is interrupted between two storage statements of the handler
\* (the worker or the connection is lost): get_db closes the session, what
\* was not committed is discarded, and the client gets no successful answer.
Fail(c) ==
    /\ cpc[c] \in {"insert", "children"}
    /\ cpc' = [cpc EXCEPT ![c] = "done"]
    /\ cresponse' = [cresponse EXCEPT ![c] = ServerError("interrupted")]
    /\ UNCHANGED <<storage, request, person, db_person, new_person, rvars>>

\* --------------------------------------------------------- read_person
\* Lines 152-154: the query by id and the 404 it may raise.
Lookup(q) ==
    /\ rpc[q] = "idle"
    /\ \A r \in Readers : r < q => rpc[r] # "idle"
    /\ \E id \in PersonIds :
        /\ person_id' = [person_id EXCEPT ![q] = id]
        /\ LET found == QueryById(persons, id)
           IN  /\ rperson' = [rperson EXCEPT ![q] = found]
               /\ IF found = NoRow
                  THEN /\ rpc' = [rpc EXCEPT ![q] = "done"]
                       /\ rresponse' = [rresponse EXCEPT ![q] = NotFound]
                  ELSE /\ rpc' = [rpc EXCEPT ![q] = "educations"]
                       /\ UNCHANGED rresponse
    /\ UNCHANGED <<storage, cvars, reducations>>

\* Line 155, PersonResponse reading person.educations: a lazy load.
ReadEducations(q) ==
    /\ rpc[q] = "educations"
    /\ reducations' = [reducations EXCEPT ![q] =
           LoadEducations(educations, rperson[q].id)]
    /\ rpc' = [rpc EXCEPT ![q] = "skills"]
    /\ UNCHANGED <<storage, cvars, person_id, rperson, rresponse>>

\* Line 155, PersonResponse reading person.skills: a second lazy load, and
\* the response.
ReadSkills(q) ==
    /\ rpc[q] = "skills"
    /\ rresponse' = [rresponse EXCEPT ![q] =
           Ok(PersonResponse(rperson[q], reducations[q],
                             LoadSkills(skills, rperson[q].id)))]
    /\ rpc' = [rpc EXCEPT ![q] = "done"]
    /\ UNCHANGED <<storage, cvars, person_id, rperson, reducations>>

\* ------------------------------------------------------ specifications
CreateStep(c) ==
    \/ Reject(c)
    \/ CheckEmail(c)
    \/ CommitPerson(c)
    \/ CommitChildren(c)

ReadStep(q) ==
    \/ Lookup(q)
    \/ ReadEducations(q)
    \/ ReadSkills(q)

Next ==
    \/ \E c \in Creators : CreateStep(c)
    \/ \E c \in Creators : Fail(c)
    \/ \E q \in Readers : ReadStep(q)

Spec == Init /\ [][Next]_vars

\* The create requests alone, interruptions included.
NextCreate ==
    \/ \E c \in Creators : CreateStep(c)
    \/ \E c \in Creators : Fail(c)

SpecCreate == Init /\ [][NextCreate]_vars

\* The create requests alone, none interrupted.
NextNoFail == \E c \in Creators : CreateStep(c)

SpecNoFail == Init /\ [][NextNoFail]_vars

\* The state the first create request leaves when it runs alone, from empty
\* tables, to its 200.
Created(body) ==
    LET p == PersonCreate(body)
        row == PersonDB(NextId({}), p)
        es == NewEducations({}, p.educations, row.id)
        ss == NewSkills({}, p.skills, row.id)
    IN  /\ persons = {row}
        /\ educations = es
        /\ skills = ss
        /\ cpc = [c \in Creators |-> IF c = 1 THEN "done" ELSE "idle"]
        /\ request = [c \in Creators |-> IF c = 1 THEN body ELSE NoBody]
        /\ person = [c \in Creators |-> IF c = 1 THEN p ELSE NoBody]
        /\ db_person = [c \in Creators |-> IF c = 1 THEN NoRow ELSE Unset]
        /\ new_person = [c \in Creators |-> IF c = 1 THEN row ELSE NoRow]
        /\ cresponse = [c \in Creators |->
               IF c = 1
               THEN Ok(PersonResponse(row, LoadEducations(es, row.id),
                                      LoadSkills(ss, row.id)))
               ELSE NoResponse]

\* Reads: the first create request has returned before any read is issued,
\* the second runs while the reads do.
InitRead ==
    /\ \E body \in Bodies(1) :
        /\ ValidEmail(body.email)
        /\ Created(body)
    /\ rpc = [q \in Readers |-> "idle"]
    /\ person_id = [q \in Readers |-> 0]
    /\ rperson = [q \in Readers |-> NoRow]
    /\ reducations = [q \in Readers |-> <<>>]
    /\ rresponse = [q \in Readers |-> NoResponse]

NextRead ==
    \/ CreateStep(2)
    \/ Fail(2)
    \/ \E q \in Readers : ReadStep(q)

SpecRead == InitRead /\ [][NextRead]_vars

\* -------------------------------------------------------------- claims
Range(f) == { f[i] : i \in DOMAIN f }
Done(c) == cpc[c] = "done"
Succeeded(c) == cresponse[c].status = 200
Interrupted(c) == cresponse[c] = ServerError("interrupted")
EducationsOf(id) == { e \in educations : e.person_id = id }
SkillsOf(id) == { k \in skills : k.person_id = id }

\* C1: in every reachable state no two stored Person rows have the same
\* email, however the create requests interleave.
C1_EmailUnique ==
    \A p1 \in persons : \A p2 \in persons : p1.email = p2.email => p1 = p2

\* C1's case: two requests raced for one email; one row is stored and the
\* other request's INSERT was rejected.
C1_Witness ==
    \E c \in Creators :
        /\ cresponse[c] = ServerError("IntegrityError")
        /\ db_person[c] = NoRow
        /\ \E p \in persons : p.email = person[c].email

\* C2: a create request whose email is the email of a stored Person when
\* its existence query runs is answered 400 "Email already registered" by
\* that step, ends there, and writes nothing, whatever else it carries.
C2_ConflictNoWrite ==
    [][ \A c \in Creators :
          ( /\ db_person'[c] # db_person[c]
            /\ \E p \in persons : p.email = request'[c].email )
          => ( /\ cresponse'[c] = Conflict
               /\ cpc'[c] = "done"
               /\ new_person'[c] = NoRow
               /\ storage' = storage ) ]_vars

\* C2's case: a request was refused for the email of a stored Person that
\* has another name and phone number, and that row is still stored.
C2_Witness ==
    \E c \in Creators :
        /\ cresponse[c] = Conflict
        /\ db_person[c] \in persons
        /\ db_person[c].email = request[c].email
        /\ db_person[c].name # request[c].name
        /\ db_person[c].phone_number # request[c].phone_number
        /\ Len(request[c].educations) > 0

\* The submitted address with the characters after its "@" in lower case.
RECURSIVE DomainLowered(_, _)
DomainLowered(s, seen) ==
    IF s = <<>> THEN <<>>
    ELSE <<IF seen /\ Head(s) = "X" THEN "x" ELSE Head(s)>>
         \o DomainLowered(Tail(s), seen \/ Head(s) = "@")

C3_Returns(c, email) ==
    LET b == cresponse[c].body
    IN  /\ b.name = request[c].name
        /\ b.email = email
        /\ b.phone_number = request[c].phone_number
        /\ b.educations = request[c].educations
        /\ b.skills = request[c].skills
        /\ Len(b.educations) = Len(request[c].educations)
        /\ Len(b.skills) = Len(request[c].skills)
        /\ b.id = new_person[c].id
        /\ \A d \in Creators : d # c => new_person[d].id # b.id
        /\ \A p \in persons : p.id = b.id => p = new_person[c]

\* C3 as stated: a create request that runs to its return gives back the
\* submitted name, email and phone number, an id no other stored Person has,
\* and the submitted education and skill entries in input order.
C3_AsStated ==
    \A c \in Creators : Succeeded(c) => C3_Returns(c, request[c].email)

\* C3, amended: as stated, except that the email returned is the submitted
\* address with its domain part in lower case.
C3_ReturnsSubmitted ==
    \A c \in Creators :
        Succeeded(c) => C3_Returns(c, DomainLowered(request[c].email, FALSE))

\* C3's case: the second Person stored, created with an upper-case domain
\* and two education entries.
C3_Witness ==
    \E c \in Creators :
        /\ Succeeded(c)
        /\ cresponse[c].body.id = 2
        /\ request[c].email # cresponse[c].body.email
        /\ Len(cresponse[c].body.educations) = 2
        /\ cresponse[c].body.educations[1] # cresponse[c].body.educations[2]

\* C7: a create request whose email has no "@" is answered 422 on arrival:
\* its existence query never runs and it adds no row.
NoAtSign(s) == \A i \in 1..Len(s) : s[i] # "@"

C7_InvalidEmailRejected ==
    [][ \A c \in Creators :
          (request'[c] # NoBody /\ NoAtSign(request'[c].email))
          => ( /\ cpc'[c] = "done"
               /\ cresponse'[c] = Validation
               /\ db_person'[c] = Unset
               /\ new_person'[c] = NoRow
               /\ (request[c] = NoBody => storage' = storage) ) ]_vars

\* C7's case: a request with a malformed email was refused while a Person
\* was stored by another request.
C7_Witness ==
    \E c \in Creators :
        /\ cresponse[c] = Validation
        /\ NoAtSign(request[c].email)
        /\ Len(request[c].educations) > 0
        /\ persons # {}

\* C8: in every reachable state, also after a create request failed or was
\* interrupted, every Education row and every Skill row has the id of
\* exactly one stored Person as its person_id.
C8_ChildrenOwned ==
    \A r \in educations \cup skills :
        Cardinality({ p \in persons : p.id = r.person_id }) = 1

\* C8's case: both child tables hold rows, two Persons are stored and a
\* request was interrupted.
C8_Witness ==
    /\ educations # {}
    /\ skills # {}
    /\ Cardinality(persons) = 2
    /\ \E c \in Creators : Interrupted(c) /\ new_person[c] # NoRow

\* C9 as stated: when two create requests with one email both run their
\* existence query before either commits, one is answered 200 and the other
\* 400; no create request ends with another status than 200, 400 or 422.
C9_AsStated ==
    /\ \A c \in Creators : Done(c) => cresponse[c].status \in {200, 400, 422}
    /\ \A c \in Creators : \A d \in Creators :
        ( /\ c # d
          /\ Done(c) /\ Done(d)
          /\ request[c].email = request[d].email
          /\ db_person[c] = NoRow /\ db_person[d] = NoRow )
        => \/ Succeeded(c) /\ cresponse[d] = Conflict
           \/ Succeeded(d) /\ cresponse[c] = Conflict

\* C10: a stored Person has none of the education and skill rows of its
\* create request or all of them, never a part of them.
C10_ChildrenAllOrNone ==
    \A c \in Creators :
        new_person[c] # NoRow =>
            LET es == EducationsOf(new_person[c].id)
                ks == SkillsOf(new_person[c].id)
            IN  \/ es = {} /\ ks = {}
                \/ /\ Cardinality(es) = Len(request[c].educations)
                   /\ Cardinality(ks) = Len(request[c].skills)
                   /\ { Education(e) : e \in es } = Range(request[c].educations)
                   /\ { Skill(k) : k \in ks } = Range(request[c].skills)

\* C10's case: a request that carried children was interrupted between its
\* two commits; its Person is stored with none of them.
C10_Witness ==
    \E c \in Creators :
        /\ Interrupted(c)
        /\ new_person[c] \in persons
        /\ Len(request[c].educations) > 0
        /\ Len(request[c].skills) > 0
        /\ EducationsOf(new_person[c].id) = {}
        /\ SkillsOf(new_person[c].id) = {}

\* --------------------------------------------------------- read claims
ReadOk(q) == rresponse[q].status = 200
Moves(q) == rpc'[q] # rpc[q]

\* What a read that takes a step now must see of a Person whose create
\* request returned the body b.
C4_StepSees(q, b) ==
    /\ rpc[q] = "idle" =>
        /\ rpc'[q] = "educations"
        /\ rperson'[q].id = b.id
        /\ rperson'[q].name = b.name
        /\ rperson'[q].email = b.email
        /\ rperson'[q].phone_number = b.phone_number
    /\ rpc[q] = "educations" => reducations'[q] = b.educations
    /\ rpc[q] = "skills" =>
        /\ ReadOk(q)'
        /\ rresponse'[q].body.id = b.id
        /\ rresponse'[q].body.skills = b.skills
        /\ rresponse'[q].body.educations = reducations[q]

\* C4: a read of the id a create request returned, issued after that
\* request returned, succeeds and returns the create's response: the same
\* id, name, email, phone number, education entries and skill entries.
\* The first create request has returned before any read is issued; every
\* step a read takes after another create request returned sees what that
\* request returned.
C4_ReadAfterCreate ==
    /\ [](\A q \in Readers :
            (rpc[q] = "done" /\ person_id[q] = cresponse[1].body.id)
            => rresponse[q] = cresponse[1])
    /\ [][ \A q \in Readers : \A c \in Creators :
             ( /\ Moves(q)
               /\ Done(c) /\ Succeeded(c)
               /\ person_id'[q] = cresponse[c].body.id )
             => C4_StepSees(q, cresponse[c].body) ]_vars

\* C4's case: one read returned the first create's response, with children,
\* and another the second create's, while two Persons are stored.
C4_Witness ==
    \E q1 \in Readers : \E q2 \in Readers :
        /\ rresponse[q1] = cresponse[1]
        /\ Len(cresponse[1].body.educations) > 0
        /\ Len(cresponse[1].body.skills) > 0
        /\ Succeeded(2)
        /\ rresponse[q2] = cresponse[2]
        /\ Len(cresponse[2].body.skills) > 0

\* C5: read-person answers 404 "Person not found" exactly when no stored
\* Person has the id asked for, and then leaves storage as it is; for the
\* id of a stored Person it goes on and answers 200 with that id.
C5_NotFoundIffAbsent ==
    /\ [][ \A q \in Readers :
             (rpc[q] = "idle" /\ Moves(q)) =>
                 /\ storage' = storage
                 /\ IF \E p \in persons : p.id = person_id'[q]
                    THEN /\ rpc'[q] = "educations"
                         /\ rresponse'[q] = NoResponse
                         /\ rperson'[q] \in persons
                         /\ rperson'[q].id = person_id'[q]
                    ELSE /\ rpc'[q] = "done"
                         /\ rresponse'[q] = NotFound ]_vars
    /\ [](\A q \in Readers :
            rpc[q] = "done" =>
                \/ rresponse[q] = NotFound
                \/ /\ ReadOk(q)
                   /\ rresponse[q].body.id = person_id[q]
                   /\ \E p \in persons : p.id = person_id[q])

\* C5's case: one id was answered 404 before its Person was stored and 200
\* after.
C5_Witness ==
    \E q1 \in Readers : \E q2 \in Readers :
        /\ rresponse[q1] = NotFound
        /\ ReadOk(q2)
        /\ person_id[q1] = person_id[q2]

\* C6 as stated: any two successful reads of one id return identical data,
\* also when create requests run between or during them.
C6_AsStated ==
    \A q1 \in Readers : \A q2 \in Readers :
        (ReadOk(q1) /\ ReadOk(q2) /\ person_id[q1] = person_id[q2])
        => rresponse[q1] = rresponse[q2]

C6_Agree(a, b) ==
    /\ a.id = b.id
    /\ a.name = b.name
    /\ a.email = b.email
    /\ a.phone_number = b.phone_number
    /\ a.educations = b.educations \/ a.educations = <<>> \/ b.educations = <<>>
    /\ a.skills = b.skills \/ a.skills = <<>> \/ b.skills = <<>>

\* C6, amended: any two successful reads of one id return the same id,
\* name, email and phone number; they return the same education and skill
\* entries when the create request of that Person had ended before the
\* reads were issued (the first request's Person), and otherwise their
\* education lists, and their skill lists, are equal or one is empty.  A
\* step of a read changes nothing in storage.
C6_ReadsAgree ==
    /\ [](\A q1 \in Readers : \A q2 \in Readers :
            (ReadOk(q1) /\ ReadOk(q2) /\ person_id[q1] = person_id[q2])
            => /\ C6_Agree(rresponse[q1].body, rresponse[q2].body)
               /\ person_id[q1] = cresponse[1].body.id
                    => rresponse[q1] = rresponse[q2])
    /\ [][ (\E q \in Readers : Moves(q)) => storage' = storage ]_vars

\* C6's case: two successful reads of one id returned different data: one
\* ran before the children of that Person were committed, one after.
C6_Witness ==
    \E q1 \in Readers : \E q2 \in Readers :
        /\ ReadOk(q1) /\ ReadOk(q2)
        /\ person_id[q1] = person_id[q2]
        /\ rresponse[q1] # rresponse[q2]

====
